---- MODULE Spec2Model ----
(***************************************************************************)
(* Model of cheby_checker/archaic/parse_input_MA_EMAIL.py: the class       *)
(* ParseElements (parse_orbfit, parse_ele220, make_bary_equatorial,        *)
(* _get_and_set_junk_data, save_elements) and the module functions         *)
(* ecliptic_to_equatorial, equatorial_helio2bary, _parse_Covariance_List.  *)
(*                                                                         *)
(* Numbers are exact rationals <<n, d>> (d > 0, lowest terms).  A numpy    *)
(* array is a record [shape, data]: its shape and its row-major buffer.    *)
(* A text line is a record [kind, f]: what it starts with and the numeric  *)
(* tokens that follow its first token.                                     *)
(***************************************************************************)
EXTENDS Integers, Sequences, FiniteSets, TLC

VARIABLES
    helio_ecl_vec_EXISTS, helio_ecl_vec,
    helio_ecl_cov_EXISTS, helio_ecl_cov,
    bary_eq_vec_EXISTS, bary_eq_vec,
    bary_eq_cov_EXISTS, bary_eq_cov,
    time,       \* self.time, NoTime while the attribute is not set
    tstart,     \* self.tstart, NoJd while the attribute is not set
    outfile,    \* the output file: [opened, text]
    alive,      \* the caller holds the object (its construction returned)
    call,       \* the last call made by the caller, with its arguments
    raised,     \* how that call ended: "none" or the exception's name
    steps,      \* the methods that call ran, in order
    transformed,\* make_bary_equatorial has returned True on this object
    direct,     \* _get_and_set_junk_data(BaryEqDirect=True) has run on it
    nops,       \* calls made so far
    fcall,      \* the last call of a module function, with its arguments
    fret        \* what that call returned

objvars == <<helio_ecl_vec_EXISTS, helio_ecl_vec, helio_ecl_cov_EXISTS,
             helio_ecl_cov, bary_eq_vec_EXISTS, bary_eq_vec,
             bary_eq_cov_EXISTS, bary_eq_cov, time, tstart, outfile, alive,
             call, raised, steps, transformed, direct, nops>>
fnvars == <<fcall, fret>>
vars == <<objvars, fnvars>>

(***************************************************************************)
(* Exact rational arithmetic (the code computes in float64).               *)
(***************************************************************************)
Abs(x) == IF x < 0 THEN -x ELSE x

RECURSIVE GCD(_, _)
GCD(a, b) == IF b = 0 THEN a ELSE GCD(b, a % b)

Rat(n, d) ==
    LET g == GCD(Abs(n), Abs(d))
        s == IF d < 0 THEN -1 ELSE 1
    IN <<s * (n \div g), s * (d \div g)>>

Q(n) == <<n, 1>>
RZero == <<0, 1>>

RAdd(a, b) ==
    IF a[1] = 0 THEN b
    ELSE IF b[1] = 0 THEN a
    ELSE LET g == GCD(a[2], b[2])
         IN Rat(a[1] * (b[2] \div g) + b[1] * (a[2] \div g), (a[2] \div g) * b[2])

RMul(a, b) ==
    IF a[1] = 0 \/ b[1] = 0 THEN RZero
    ELSE LET g1 == GCD(Abs(a[1]), b[2])
             g2 == GCD(Abs(b[1]), a[2])
         IN <<(a[1] \div g1) * (b[1] \div g2), (a[2] \div g2) * (b[2] \div g1)>>

RNeg(a) == <<-a[1], a[2]>>

RDiv(a, b) == RMul(a, IF b[1] < 0 THEN <<-b[2], -b[1]>> ELSE <<b[2], b[1]>>)

(***************************************************************************)
(* numpy arrays.                                                           *)
(***************************************************************************)
None == [shape |-> <<>>, data |-> <<>>]

Arr1(s) == [shape |-> <<Len(s)>>, data |-> s]

ndim(a) == Len(a.shape)

\* element (i, j), 0-based, of a 2-D array
At(a, i, j) == a.data[i * a.shape[2] + j + 1]

\* the (n, m) array whose element (i, j) is f[i, j], 0-based
Mat(n, m, f) ==
    [shape |-> <<n, m>>,
     data |-> [k \in 1..(n * m) |-> f[(k - 1) \div m, (k - 1) % m]]]

RECURSIVE RSum(_)
RSum(s) == IF s = <<>> THEN RZero ELSE RAdd(Head(s), RSum(Tail(s)))

\* A @ B for 2-D A and B
MatMul(A, B) ==
    Mat(A.shape[1], B.shape[2],
        [i \in 0..(A.shape[1] - 1), j \in 0..(B.shape[2] - 1) |->
            RSum([k \in 1..A.shape[2] |-> RMul(At(A, i, k - 1), At(B, k - 1, j))])])

\* A @ v for 2-D A and 1-D v
MatVec(A, v) ==
    Arr1([i \in 1..A.shape[1] |->
            RSum([k \in 1..A.shape[2] |-> RMul(At(A, i - 1, k - 1), v.data[k])])])

\* A.T
Transpose(A) ==
    Mat(A.shape[2], A.shape[1],
        [i \in 0..(A.shape[2] - 1), j \in 0..(A.shape[1] - 1) |-> At(A, j, i)])

\* np.zeros((n, m))
zeros(n, m) == Mat(n, m, [i \in 0..(n - 1), j \in 0..(m - 1) |-> RZero])

\* np.atleast_1d: a 0-d array becomes a 1-d array of length 1
atleast_1d(a) == IF ndim(a) = 0 THEN [shape |-> <<1>>, data |-> a.data] ELSE a

(***************************************************************************)
(* Collaborators outside the repository: mpcpp.MPC_library and astropy.    *)
(***************************************************************************)
\* cos and sin of mpc.Constants.ecl, the mean obliquity of the ecliptic,
\* taken at a Pythagorean angle (3-4-5) so that both are rational
CosEcl == <<4, 5>>
SinEcl == <<3, 5>>

\* mpc.rotate_matrix(ecl * direction): ce = cos(angle), se = sin(-angle),
\* rows [1 0 0], [0 ce se], [0 -se ce]
rotate_matrix(direction) ==
    LET ce == CosEcl
        se == RMul(Q(-direction), SinEcl)
    IN Mat(3, 3, [i \in 0..2, j \in 0..2 |->
            IF i = 0 \/ j = 0 THEN (IF i = j THEN Q(1) ELSE RZero)
            ELSE IF i = j THEN ce
            ELSE IF i = 1 THEN se ELSE RNeg(se)])

\* au_km = 149597870.700
au_km == <<1495978707, 10>>

\* astropy: Time(...).tdb.jd.  The Julian date is kept in half days (jd2);
\* corr says that the TT -> TDB periodic term (< 2 ms) has been added to it.
NoTime == [val |-> 0, scale |-> "unset"]
NoJd == [jd2 |-> 0, corr |-> FALSE]
Time(mjd, scale) == [val |-> mjd, scale |-> scale]
tdb_jd(t) == [jd2 |-> 2 * t.val + 4800001, corr |-> (t.scale = "tt")]

\* mpc.jpl_kernel[0, 10].compute_and_differentiate(jd_tdb): a position (km)
\* and a velocity (km/day), here a fixture ephemeris of fractions of an au
\* that vary with the date
compute_and_differentiate(jd) ==
    LET k == 1 + (jd.jd2 % 3)
        sg == IF jd.corr THEN -1 ELSE 1
    IN [delta |-> << <<1495978707, 10 * k>>, <<-1495978707, 20>>,
                     <<sg * 1495978707, 40>> >>,
        delta_vel |-> << <<-1495978707, 80>>, <<sg * 1495978707, 20 * k>>,
                         <<1495978707, 10>> >>]

(***************************************************************************)
(* The module functions.  A call returns [exc, out]: exc is "none" and out *)
(* the value returned, or exc names how the call ended and out is None.    *)
(***************************************************************************)
Returned(x) == [exc |-> "none", out |-> x]
Raised(e) == [exc |-> e, out |-> None]

\* np.block([[R3, 0], [0, R3]])
R6of(R3) ==
    Mat(6, 6, [i \in 0..5, j \in 0..5 |->
            IF (i \div 3) = (j \div 3) THEN At(R3, i % 3, j % 3) ELSE RZero])

\* Faulty variant of ecliptic_to_equatorial: an input of another shape is
\* returned as it is.
ecliptic_to_equatorial_no_exit(input0, backwards) ==
    LET input == atleast_1d(input0)
        direction == IF backwards THEN -1 ELSE 1
        R3 == rotate_matrix(direction)
        R6 == R6of(R3)
    IN IF ndim(input) = 1 /\ input.shape[1] \in {3, 6}
       THEN Returned(MatVec(IF input.shape[1] = 6 THEN R6 ELSE R3, input))
       ELSE IF ndim(input) = 2 /\ input.shape = <<6, 6>>
       THEN Returned(MatMul(MatMul(R6, input), Transpose(R6)))
       ELSE Returned(input)

ecliptic_to_equatorial(input0, backwards) ==
    LET input == atleast_1d(input0)
        direction == IF backwards THEN -1 ELSE 1
        R3 == rotate_matrix(direction)
        R6 == R6of(R3)
    IN IF ndim(input) = 1 /\ input.shape[1] \in {3, 6}
       THEN Returned(MatVec(IF input.shape[1] = 6 THEN R6 ELSE R3, input))
       ELSE IF ndim(input) = 2 /\ input.shape = <<6, 6>>
       THEN Returned(MatMul(MatMul(R6, input), Transpose(R6)))
       ELSE Raised("SystemExit")

\* Faulty variant of equatorial_helio2bary: backwards is ignored.
equatorial_helio2bary_one_way(input0, jd_tdb, backwards) ==
    LET direction == 1
        input_xyz == atleast_1d(input0)
        eph == compute_and_differentiate(jd_tdb)
        delta == IF input_xyz.shape[1] = 3 THEN eph.delta
                 ELSE eph.delta \o eph.delta_vel
    IN IF ndim(input_xyz) # 1 THEN Raised("AssertionError")
       ELSE IF input_xyz.shape[1] \notin {3, 6} THEN Raised("AssertionError")
       ELSE Returned(Arr1([i \in 1..input_xyz.shape[1] |->
                RAdd(input_xyz.data[i],
                     RDiv(RMul(delta[i], Q(direction)), au_km))]))

equatorial_helio2bary(input0, jd_tdb, backwards) ==
    LET direction == IF backwards THEN -1 ELSE 1
        input_xyz == atleast_1d(input0)
        eph == compute_and_differentiate(jd_tdb)
        delta == IF input_xyz.shape[1] = 3 THEN eph.delta
                 ELSE eph.delta \o eph.delta_vel
    IN IF ndim(input_xyz) # 1 THEN Raised("AssertionError")
       ELSE IF input_xyz.shape[1] \notin {3, 6} THEN Raised("AssertionError")
       ELSE Returned(Arr1([i \in 1..input_xyz.shape[1] |->
                RAdd(input_xyz.data[i],
                     RDiv(RMul(delta[i], Q(direction)), au_km))]))

(***************************************************************************)
(* Text lines.  kind is "head" for the line that equals cart_head, "cov"   *)
(* for a line whose first four characters are ' COV', "txt" for any other; *)
(* f holds the numeric tokens after the line's first token, so that        *)
(* split() yields 1 + Len(f) tokens for a "cov" or "txt" line.             *)
(***************************************************************************)
cart_head == [kind |-> "head", f |-> <<>>]

\* len(El.split())
ntokens(El) == IF El.kind = "head" THEN 6 ELSE 1 + Len(El.f)

\* float(token)
float(tok) == Q(tok)

\* el.count(cart_head)
count(el, x) == Cardinality({i \in 1..Len(el) : el[i] = x})

\* Faulty variant of CovTargets: c24 and c25 are assigned to each other's
\* element.
CovTargets_c24_c25_swapped ==
    << <<0, 0>>, <<0, 1>>, <<0, 2>>,
       <<0, 3>>, <<0, 4>>, <<0, 5>>,
       <<1, 1>>, <<1, 2>>, <<1, 4>>,
       <<1, 3>>, <<1, 5>>, <<2, 2>>,
       <<2, 3>>, <<2, 4>>, <<2, 5>>,
       <<3, 3>>, <<3, 4>>, <<3, 5>>,
       <<4, 4>>, <<4, 5>>, <<5, 5>> >>

\* the element of CoV that the k-th value read is assigned to (k = 1..21):
\* three values from each of the seven lines, in the order of the assignments
CovTargets ==
    << <<0, 0>>, <<0, 1>>, <<0, 2>>,
       <<0, 3>>, <<0, 4>>, <<0, 5>>,
       <<1, 1>>, <<1, 2>>, <<1, 3>>,
       <<1, 4>>, <<1, 5>>, <<2, 2>>,
       <<2, 3>>, <<2, 4>>, <<2, 5>>,
       <<3, 3>>, <<3, 4>>, <<3, 5>>,
       <<4, 4>>, <<4, 5>>, <<5, 5>> >>

\* Faulty variant of no_covariance: no matrix is returned.
no_covariance_without_matrix == [exc |-> "none", CoV_EXISTS |-> FALSE, CoV |-> None]

\* CoV = np.zeros((6,6)), CoV_EXISTS = False: what is returned untouched
\* when the lines are not seven
no_covariance == [exc |-> "none", CoV_EXISTS |-> FALSE, CoV |-> zeros(6, 6)]

\* the lines of Els that start with ' COV'
CovLinesOf(Els) == LET IsCov(El) == El.kind = "cov" IN SelectSeq(Els, IsCov)

\* _parse_Covariance_List(Els): [exc, CoV_EXISTS, CoV]
parse_Covariance_List(Els) ==
    LET ElCov == CovLinesOf(Els)
        \* the upper triangle as the seven unpacking assignments fill it
        upper == [i \in 0..5, j \in 0..5 |->
            IF \E k \in 1..21 : CovTargets[k] = <<i, j>>
            THEN LET k == CHOOSE k \in 1..21 : CovTargets[k] = <<i, j>>
                 IN float(ElCov[((k - 1) \div 3) + 1].f[((k - 1) % 3) + 1])
            ELSE RZero]
        \* for i in range(1,6): for j in range(i): CoV[i,j] = CoV[j,i]
        full == [i \in 0..5, j \in 0..5 |->
            IF i \in 1..5 /\ j \in 0..(i - 1) THEN upper[j, i] ELSE upper[i, j]]
    IN IF Len(ElCov) = 7
       THEN IF \E n \in 1..7 : ntokens(ElCov[n]) # 4
            THEN [exc |-> "ValueError", CoV_EXISTS |-> FALSE, CoV |-> None]
            ELSE [exc |-> "none", CoV_EXISTS |-> TRUE, CoV |-> Mat(6, 6, full)]
       ELSE no_covariance

(***************************************************************************)
(* ParseElements.  A method is an operator from the object's state (a      *)
(* record of its attributes, the output file, and exc, how the call ended) *)
(* to its state after the call; a call that raises keeps what it had       *)
(* assigned before the statement that raised.                              *)
(***************************************************************************)
NoFile == [opened |-> FALSE, text |-> <<>>]

\* __init__: the attributes as first assigned
Fresh(out) ==
    [helio_ecl_vec_EXISTS |-> FALSE, helio_ecl_vec |-> None,
     helio_ecl_cov_EXISTS |-> FALSE, helio_ecl_cov |-> None,
     bary_eq_vec_EXISTS |-> FALSE, bary_eq_vec |-> None,
     bary_eq_cov_EXISTS |-> FALSE, bary_eq_cov |-> None,
     time |-> NoTime, tstart |-> NoJd, outfile |-> out,
     transformed |-> FALSE, direct |-> FALSE, steps |-> <<>>, exc |-> "none"]

\* the element of a one-element set: Only({e(x) : x \in {v}}) is e(v), with v
\* evaluated once and bound to x, as a statement's result is bound in Python
Only(S) == CHOOSE x \in S : TRUE

Ran(s, name) == [s EXCEPT !.steps = Append(@, name)]
Raise(s, e) == [s EXCEPT !.exc = e]

\* Faulty variant of carLocOf: the first header line, el.index(cart_head).
carLocOf_first(el) ==
    (CHOOSE i \in 1..Len(el) :
        el[i] = cart_head /\ \A j \in 1..(i - 1) : el[j] # cart_head) - 1

\* carLoc = len(el) - 1 - list(reversed(el)).index(cart_head), 0-based
carLocOf(el) ==
    LET rev == [i \in 1..Len(el) |-> el[Len(el) + 1 - i]]
        index == (CHOOSE i \in 1..Len(rev) :
                    rev[i] = cart_head /\ \A j \in 1..(i - 1) : rev[j] # cart_head) - 1
    IN Len(el) - 1 - index

\* el[lo:hi], 0-based, hi excluded
Slice(el, lo, hi) == SubSeq(el, lo + 1, IF hi < Len(el) THEN hi ELSE Len(el))

\* Faulty variant of no_valid_elements: nothing is raised.
no_valid_elements_silent(s) == s

\* raise TypeError("There does not seem to be any valid elements ...")
no_valid_elements(s) == Raise(s, "TypeError: no valid elements")

parse_orbfit(s0, el) ==
    LET s == Ran(s0, "parse_orbfit")
        carLoc == carLocOf(el)
        carEls == Slice(el, carLoc, carLoc + 25)
        vec == Arr1([i \in 1..6 |-> float(carEls[2].f[i])])
        s1 == [s EXCEPT !.helio_ecl_vec = vec, !.helio_ecl_vec_EXISTS = TRUE]
        s2 == [s1 EXCEPT !.time = Time(carEls[3].f[1], "tt")]
        cov == parse_Covariance_List(carEls)
    IN IF count(el, cart_head) > 0
       THEN IF Len(carEls) < 2 THEN Raise(s, "IndexError")
            ELSE IF ntokens(carEls[2]) # 7 THEN Raise(s, "ValueError")
            ELSE IF Len(carEls) < 3 THEN Raise(s1, "IndexError")
            ELSE IF ntokens(carEls[3]) # 3 THEN Raise(s1, "ValueError")
            ELSE IF cov.exc # "none" THEN Raise(s2, cov.exc)
            ELSE [s2 EXCEPT !.helio_ecl_cov_EXISTS = cov.CoV_EXISTS,
                            !.helio_ecl_cov = cov.CoV]
       ELSE no_valid_elements(s)

\* Faulty variant of make_bary_equatorial: bary_eq_cov_EXISTS is set outside
\* the test of helio_ecl_cov_EXISTS.
make_bary_equatorial_flag_outside_if(s0) ==
    Only({ IF s2.exc # "none" THEN s2
           ELSE IF ~s2.helio_ecl_vec_EXISTS /\ ~s2.helio_ecl_cov_EXISTS
           THEN Raise(s2, "TypeError: nothing to transform")
           ELSE [s2 EXCEPT !.transformed = TRUE] :
        s2 \in { IF s1.exc # "none" THEN s1
                 ELSE IF ~s1.helio_ecl_cov_EXISTS THEN [s1 EXCEPT !.bary_eq_cov_EXISTS = TRUE]
                 ELSE Only({ IF cov.exc # "none" THEN Raise(s1, cov.exc)
                             ELSE [s1 EXCEPT !.bary_eq_cov = cov.out,
                                             !.bary_eq_cov_EXISTS = TRUE] :
                        cov \in {ecliptic_to_equatorial(s1.helio_ecl_cov, FALSE)} }) :
        s1 \in { IF ~s.helio_ecl_vec_EXISTS THEN s
                 ELSE Only({ IF rot.exc # "none" THEN Raise(s, rot.exc)
                             ELSE IF s.time = NoTime THEN Raise(s, "AttributeError")
                             ELSE Only({ IF vec.exc # "none" THEN Raise(s, vec.exc)
                                         ELSE [s EXCEPT !.bary_eq_vec = vec.out,
                                                        !.bary_eq_vec_EXISTS = TRUE] :
                                    vec \in {equatorial_helio2bary(
                                                rot.out, tdb_jd(s.time), FALSE)} }) :
                        rot \in {ecliptic_to_equatorial(s.helio_ecl_vec, FALSE)} }) :
        s \in {Ran(s0, "make_bary_equatorial")} } } })

\* the three if statements in turn: s is the object at entry, s1 after the
\* first, s2 after the second; a statement that raises ends the call
make_bary_equatorial(s0) ==
    Only({ IF s2.exc # "none" THEN s2
           ELSE IF ~s2.helio_ecl_vec_EXISTS /\ ~s2.helio_ecl_cov_EXISTS
           THEN Raise(s2, "TypeError: nothing to transform")
           ELSE [s2 EXCEPT !.transformed = TRUE] :
        s2 \in { IF s1.exc # "none" THEN s1
                 ELSE IF ~s1.helio_ecl_cov_EXISTS THEN s1
                 ELSE Only({ IF cov.exc # "none" THEN Raise(s1, cov.exc)
                             ELSE [s1 EXCEPT !.bary_eq_cov = cov.out,
                                             !.bary_eq_cov_EXISTS = TRUE] :
                        cov \in {ecliptic_to_equatorial(s1.helio_ecl_cov, FALSE)} }) :
        s1 \in { IF ~s.helio_ecl_vec_EXISTS THEN s
                 ELSE Only({ IF rot.exc # "none" THEN Raise(s, rot.exc)
                             ELSE IF s.time = NoTime THEN Raise(s, "AttributeError")
                             ELSE Only({ IF vec.exc # "none" THEN Raise(s, vec.exc)
                                         ELSE [s EXCEPT !.bary_eq_vec = vec.out,
                                                        !.bary_eq_vec_EXISTS = TRUE] :
                                    vec \in {equatorial_helio2bary(
                                                rot.out, tdb_jd(s.time), FALSE)} }) :
                        rot \in {ecliptic_to_equatorial(s.helio_ecl_vec, FALSE)} }) :
        s \in {Ran(s0, "make_bary_equatorial")} } } })

\* Faulty variant of get_and_set_junk_data: with BaryEqDirect the covariance
\* flag is set and the covariance is not assigned.
get_and_set_junk_data_cov_unassigned(s0, BaryEqDirect) ==
    LET s == [Ran(s0, "_get_and_set_junk_data") EXCEPT !.time = Time(58849, "tdb")]
        v == Arr1(<< Q(3), Q(2), Q(1), <<3, 10>>, <<1, 5>>, <<1, 10>> >>)
        CoV == Mat(6, 6, [i \in 0..5, j \in 0..5 |-> <<1, 100>>])
    IN IF ~BaryEqDirect
       THEN make_bary_equatorial(
                [s EXCEPT !.helio_ecl_vec = v, !.helio_ecl_vec_EXISTS = TRUE,
                          !.helio_ecl_cov = CoV, !.helio_ecl_cov_EXISTS = TRUE])
       ELSE [s EXCEPT !.bary_eq_vec = v, !.bary_eq_vec_EXISTS = TRUE,
                      !.bary_eq_cov_EXISTS = TRUE,
                      !.direct = TRUE]

\* self.time = Time(2458849.5, format='jd', scale='tdb'), that is MJD 58849
get_and_set_junk_data(s0, BaryEqDirect) ==
    LET s == [Ran(s0, "_get_and_set_junk_data") EXCEPT !.time = Time(58849, "tdb")]
        v == Arr1(<< Q(3), Q(2), Q(1), <<3, 10>>, <<1, 5>>, <<1, 10>> >>)
        CoV == Mat(6, 6, [i \in 0..5, j \in 0..5 |-> <<1, 100>>])
    IN IF ~BaryEqDirect
       THEN make_bary_equatorial(
                [s EXCEPT !.helio_ecl_vec = v, !.helio_ecl_vec_EXISTS = TRUE,
                          !.helio_ecl_cov = CoV, !.helio_ecl_cov_EXISTS = TRUE])
       ELSE [s EXCEPT !.bary_eq_vec = v, !.bary_eq_vec_EXISTS = TRUE,
                      !.bary_eq_cov = CoV, !.bary_eq_cov_EXISTS = TRUE,
                      !.direct = TRUE]

\* given: the argument ele220file is not None
parse_ele220(s0, given) ==
    LET s == Ran(s0, "parse_ele220")
    IN IF ~given THEN Raise(s, "TypeError: ele220file")
       ELSE get_and_set_junk_data(s, FALSE)

OutLine(kw, jd, nums) == [kw |-> kw, jd |-> jd, nums |-> nums]

save_elements(s0) ==
    LET s == Ran(s0, "save_elements")
        s1 == [s EXCEPT !.tstart = tdb_jd(s.time)]
        header == << OutLine("tstart", s1.tstart, <<>>),
                     OutLine("tstep +20.0", NoJd, <<>>),
                     OutLine("trange 600.", NoJd, <<>>),
                     OutLine("geocentric 0", NoJd, <<>>),
                     OutLine("state", NoJd, <<>>) >>
        s2 == [s1 EXCEPT !.outfile = [opened |-> TRUE, text |-> header]]
        c == s.bary_eq_vec.data
        \* suffix '\n' after n in [2, 5]
        rows == [r \in 1..(Len(c) \div 3) |->
                    OutLine("", NoJd, SubSeq(c, 3 * r - 2, 3 * r))]
    IN IF s.time = NoTime THEN Raise(s, "AttributeError")
       ELSE IF s.bary_eq_vec = None THEN Raise(s2, "TypeError: not iterable")
       ELSE [s2 EXCEPT !.outfile.text = header \o rows]

\* Faulty variant of init: save_elements runs whether or not the parse and
\* the transform succeeded.
init_saves_after_failure(out, el, filetype, save_parsed) ==
    Only({ IF save_parsed THEN save_elements(s3) ELSE s3 :
        s3 \in { IF s2.exc = "none" THEN make_bary_equatorial(s2) ELSE s2 :
        s2 \in { IF s1.exc = "none" /\ filetype \in {"fel", "eq"}
                 THEN parse_orbfit(s1, el) ELSE s1 :
        s1 \in { IF filetype = "ele220" THEN parse_ele220(Fresh(out), TRUE)
                 ELSE Fresh(out) } } } })

\* ParseElements(input_file, filetype, save_parsed), both given as strings
init(out, el, filetype, save_parsed) ==
    Only({ IF s3.exc = "none" /\ save_parsed THEN save_elements(s3) ELSE s3 :
        s3 \in { IF s2.exc = "none" THEN make_bary_equatorial(s2) ELSE s2 :
        s2 \in { IF s1.exc = "none" /\ filetype \in {"fel", "eq"}
                 THEN parse_orbfit(s1, el) ELSE s1 :
        s1 \in { IF filetype = "ele220" THEN parse_ele220(Fresh(out), TRUE)
                 ELSE Fresh(out) } } } })

(***************************************************************************)
(* Inputs.                                                                 *)
(***************************************************************************)
MaxOps == 2

VecLine(k) == [kind |-> "txt", f |-> <<k, k + 1, k + 2, 3 * k, 2 * k, k>>]
EpochLine(m) == [kind |-> "txt", f |-> <<m, 0>>]
\* a ' COV' line with w values, the first one b + 1
CovLine(b, w) == [kind |-> "cov", f |-> [i \in 1..w |-> b + i]]
CovBlock(n, b, w) == [i \in 1..n |-> CovLine(b + 3 * (i - 1), w)]
Filler(n) == [i \in 1..n |-> [kind |-> "txt", f |-> <<>>]]
Mjd(k) == 58848 + k

\* a section: the header, the vector line, the epoch line, pad other lines
\* and n ' COV' lines of w values each
Section(k, n, w, pad) ==
    <<cart_head, VecLine(k), EpochLine(Mjd(k))>> \o Filler(pad) \o CovBlock(n, 10 * k, w)

Good(k) == Section(k, 7, 3, 0)
BadVec == <<cart_head, [kind |-> "txt", f |-> <<1, 2, 3>>], EpochLine(Mjd(1))>>
BadEpoch == <<cart_head, VecLine(2), [kind |-> "txt", f |-> <<Mjd(2)>>]>> \o CovBlock(7, 20, 3)

OneSection ==
    { Good(1), Section(1, 0, 3, 0), Section(2, 8, 3, 0), Section(2, 7, 2, 0),
      Section(1, 7, 3, 20), BadVec, BadEpoch, <<cart_head>> }

NoHeader == { Tail(Good(1)) }

TwoSections ==
    { Good(1) \o Good(2), Good(2) \o Section(1, 0, 3, 0), Good(1) \o BadEpoch,
      Good(2) \o Filler(25) \o Good(1) }

Files == OneSection \cup NoHeader \cup TwoSections

FileTypes == {"fel", "eq", "ele220", "txt"}

(***************************************************************************)
(* The state machine: the caller constructs an object and calls its        *)
(* methods, going on after a call that raised.                             *)
(***************************************************************************)
Call(op, el, filetype, flag) ==
    [op |-> op, file |-> el, filetype |-> filetype, flag |-> flag]

\* the object as the next call finds it
Self ==
    [helio_ecl_vec_EXISTS |-> helio_ecl_vec_EXISTS, helio_ecl_vec |-> helio_ecl_vec,
     helio_ecl_cov_EXISTS |-> helio_ecl_cov_EXISTS, helio_ecl_cov |-> helio_ecl_cov,
     bary_eq_vec_EXISTS |-> bary_eq_vec_EXISTS, bary_eq_vec |-> bary_eq_vec,
     bary_eq_cov_EXISTS |-> bary_eq_cov_EXISTS, bary_eq_cov |-> bary_eq_cov,
     time |-> time, tstart |-> tstart, outfile |-> outfile,
     transformed |-> transformed, direct |-> direct, steps |-> <<>>, exc |-> "none"]

Becomes(s0) ==
    \E s \in {s0} :
        /\ helio_ecl_vec_EXISTS' = s.helio_ecl_vec_EXISTS
        /\ helio_ecl_vec' = s.helio_ecl_vec
        /\ helio_ecl_cov_EXISTS' = s.helio_ecl_cov_EXISTS
        /\ helio_ecl_cov' = s.helio_ecl_cov
        /\ bary_eq_vec_EXISTS' = s.bary_eq_vec_EXISTS
        /\ bary_eq_vec' = s.bary_eq_vec
        /\ bary_eq_cov_EXISTS' = s.bary_eq_cov_EXISTS
        /\ bary_eq_cov' = s.bary_eq_cov
        /\ time' = s.time
        /\ tstart' = s.tstart
        /\ outfile' = s.outfile
        /\ transformed' = s.transformed
        /\ direct' = s.direct
        /\ steps' = s.steps
        /\ raised' = s.exc

Starts(s0, c) ==
    \E s \in {s0} :
        /\ helio_ecl_vec_EXISTS = s.helio_ecl_vec_EXISTS
        /\ helio_ecl_vec = s.helio_ecl_vec
        /\ helio_ecl_cov_EXISTS = s.helio_ecl_cov_EXISTS
        /\ helio_ecl_cov = s.helio_ecl_cov
        /\ bary_eq_vec_EXISTS = s.bary_eq_vec_EXISTS
        /\ bary_eq_vec = s.bary_eq_vec
        /\ bary_eq_cov_EXISTS = s.bary_eq_cov_EXISTS
        /\ bary_eq_cov = s.bary_eq_cov
        /\ time = s.time
        /\ tstart = s.tstart
        /\ outfile = s.outfile
        /\ transformed = s.transformed
        /\ direct = s.direct
        /\ steps = s.steps
        /\ raised = s.exc
        /\ alive = (s.exc = "none")
        /\ call = c
        /\ nops = 0

NoCall == Call("none", <<>>, "", FALSE)

\* no module function is called from outside the object
FnInit == fcall = NoCall /\ fret = Returned(None)

\* the object after ParseElements(...), with or without a file and a filetype
Init ==
    /\ \/ Starts(Fresh(NoFile), Call("__init__", <<>>, "None", FALSE))
       \/ \E el \in Files, filetype \in FileTypes, save_parsed \in BOOLEAN :
            Starts(init(NoFile, el, filetype, save_parsed),
                   Call("__init__", el, filetype, save_parsed))
    /\ FnInit

Method(s, c) ==
    /\ alive
    /\ nops < MaxOps
    /\ Becomes(s)
    /\ call' = c
    /\ nops' = nops + 1
    /\ UNCHANGED <<alive, fnvars>>

ParseOrbfit ==
    \E el \in Files : Method(parse_orbfit(Self, el), Call("parse_orbfit", el, "", FALSE))

ParseEle220 ==
    \E given \in BOOLEAN :
        Method(parse_ele220(Self, given), Call("parse_ele220", <<>>, "", given))

MakeBaryEquatorial ==
    Method(make_bary_equatorial(Self), Call("make_bary_equatorial", <<>>, "", FALSE))

GetAndSetJunkData ==
    \E BaryEqDirect \in BOOLEAN :
        Method(get_and_set_junk_data(Self, BaryEqDirect),
               Call("_get_and_set_junk_data", <<>>, "", BaryEqDirect))

SaveElements ==
    Method(save_elements(Self), Call("save_elements", <<>>, "", FALSE))

Next ==
    \/ ParseOrbfit
    \/ ParseEle220
    \/ MakeBaryEquatorial
    \/ GetAndSetJunkData
    \/ SaveElements

Spec == Init /\ [][Next]_vars

(***************************************************************************)
(* The module functions on their own: an input array is passed through a   *)
(* chain of calls of ecliptic_to_equatorial and equatorial_helio2bary,     *)
(* each call taking what the call before returned; a list of lines is      *)
(* passed to _parse_Covariance_List.  A call that exits or raises ends     *)
(* the chain.                                                              *)
(***************************************************************************)
MaxCalls == 4
MaxDim == 7
MaxCovLines == 8

RECURSIVE Prod(_)
Prod(shape) == IF shape = <<>> THEN 1 ELSE Head(shape) * Prod(Tail(shape))

\* an array of the given shape holding b + 1, b + 2, b + 3, b + 4, b, b + 1, ...
Fill(shape, b) ==
    [shape |-> shape, data |-> [k \in 1..Prod(shape) |-> Q(b + (k % 5))]]

Shapes ==
    {<<>>} \cup {<<n>> : n \in 0..MaxDim}
           \cup {<<n, m>> : n \in {1, 3, 6, MaxDim}, m \in {1, 3, 6, MaxDim}}
           \cup {<<n, m, k>> : n \in {3, 6}, m \in {3, 6}, k \in {3, 6}}

Arrays == {Fill(shape, b) : shape \in Shapes, b \in {0, 4}}

Jds == {tdb_jd(Time(Mjd(1), "tt")), tdb_jd(Time(Mjd(2), "tt")), tdb_jd(Time(58849, "tdb"))}

\* lists of lines: n ' COV' lines of 3 values each, but for line bad (if any)
\* which has w values, with another line before them and after the first
LineLists ==
    { <<VecLine(1)>> \o
      [i \in 1..(n + (IF n > 0 THEN 1 ELSE 0)) |->
          IF i = 1 THEN CovLine(b, IF bad = 1 THEN w ELSE 3)
          ELSE IF i = 2 THEN EpochLine(Mjd(1))
          ELSE CovLine(b + 3 * (i - 2), IF bad = i - 1 THEN w ELSE 3)] :
      n \in 0..MaxCovLines, b \in {0, 30}, bad \in {0, 1, 7}, w \in {2, 4} }

FnCall(op, arg, backwards, c) ==
    [op |-> op, arg |-> arg, backwards |-> backwards, kind |-> c.kind,
     input |-> c.input, jd |-> c.jd, hist |-> Append(c.hist, <<op, backwards>>)]

FnStart(kind, x, jd) ==
    /\ fcall = [op |-> "none", arg |-> x, backwards |-> FALSE, kind |-> kind,
                input |-> x, jd |-> jd, hist |-> <<>>]
    /\ fret = [exc |-> "none", out |-> x]

InitFn ==
    /\ Starts(Fresh(NoFile), NoCall)
    /\ \/ \E a \in Arrays, jd \in Jds : FnStart("array", a, jd)
       \/ \E Els \in LineLists : FnStart("lines", Els, NoJd)

Chain ==
    /\ fret.exc = "none"
    /\ Len(fcall.hist) < MaxCalls
    /\ fcall.kind = "array"

CallEclipticToEquatorial ==
    \E backwards \in BOOLEAN :
        /\ Chain
        /\ fcall' = FnCall("ecliptic_to_equatorial", fret.out, backwards, fcall)
        /\ fret' = ecliptic_to_equatorial(fret.out, backwards)
        /\ UNCHANGED objvars

CallEquatorialHelio2bary ==
    \E backwards \in BOOLEAN :
        /\ Chain
        /\ fcall' = FnCall("equatorial_helio2bary", fret.out, backwards, fcall)
        /\ fret' = equatorial_helio2bary(fret.out, fcall.jd, backwards)
        /\ UNCHANGED objvars

CallParseCovarianceList ==
    /\ fcall.hist = <<>>
    /\ fcall.kind = "lines"
    /\ fcall' = FnCall("_parse_Covariance_List", fcall.input, FALSE, fcall)
    /\ fret' = parse_Covariance_List(fcall.input)
    /\ UNCHANGED objvars

NextFn ==
    \/ CallEclipticToEquatorial
    \/ CallEquatorialHelio2bary
    \/ CallParseCovarianceList

SpecFn == InitFn /\ [][NextFn]_vars

(***************************************************************************)
(* Properties of the module functions, under SpecFn.                       *)
(***************************************************************************)
\* the n-th line of Els that starts with ' COV'
NthCov(Els, n) ==
    Els[CHOOSE i \in 1..Len(Els) :
            /\ Els[i].kind = "cov"
            /\ Cardinality({j \in 1..(i - 1) : Els[j].kind = "cov"}) = n - 1]

NumCov(Els) == Cardinality({i \in 1..Len(Els) : Els[i].kind = "cov"})

\* every ' COV' line holds exactly three values after its first token
ThreeValues(Els) == \A i \in 1..Len(Els) : Els[i].kind = "cov" => Len(Els[i].f) = 3

\* the place, from 0, of element (i, j), i <= j, among the 21 elements of
\* the upper triangle listed row by row
TriIndex(i, j) == 6 * i - ((i * (i - 1)) \div 2) + (j - i)

\* the k-th value, from 0, of those the ' COV' lines hold
CovValue(Els, k) == Q(NthCov(Els, (k \div 3) + 1).f[(k % 3) + 1])

\* M is the symmetric matrix that the seven ' COV' lines of Els encode
EncodedBy(M, Els) ==
    /\ M.shape = <<6, 6>>
    /\ \A i \in 0..5, j \in 0..5 :
        /\ i <= j => At(M, i, j) = CovValue(Els, TriIndex(i, j))
        /\ At(M, i, j) = At(M, j, i)

CovCalled == fcall.op = "_parse_Covariance_List"

\* C3, as stated: seven lines that start with ' COV' give flag true and the
\* matrix they encode; any other number gives the zero matrix and flag false.
C3_AsStated ==
    CovCalled =>
        /\ NumCov(fcall.arg) = 7 =>
            fret.exc = "none" /\ fret.CoV_EXISTS /\ EncodedBy(fret.CoV, fcall.arg)
        /\ NumCov(fcall.arg) # 7 =>
            fret.exc = "none" /\ ~fret.CoV_EXISTS /\ fret.CoV = zeros(6, 6)

\* C3, amended: seven lines that start with ' COV', each holding exactly three
\* numeric values after the prefix, give flag true and the 6x6 matrix whose
\* upper triangle holds the 21 values in row-major order and whose lower
\* triangle mirrors it; any other number of such lines gives the zero matrix
\* and flag false.
C3_CovarianceParser ==
    CovCalled =>
        /\ (NumCov(fcall.arg) = 7 /\ ThreeValues(fcall.arg)) =>
            fret.exc = "none" /\ fret.CoV_EXISTS /\ EncodedBy(fret.CoV, fcall.arg)
        /\ NumCov(fcall.arg) # 7 =>
            fret.exc = "none" /\ ~fret.CoV_EXISTS /\ fret.CoV = zeros(6, 6)

C3_Witness ==
    /\ CovCalled
    /\ NumCov(fcall.arg) = 7
    /\ fret.exc = "none" /\ fret.CoV_EXISTS
    /\ At(fret.CoV, 1, 0) # At(fret.CoV, 1, 1)

Fwd(op) == <<op, FALSE>>
Bwd(op) == <<op, TRUE>>
Rot == "ecliptic_to_equatorial"
Shift == "equatorial_helio2bary"

Came(hist) == fcall.kind = "array" /\ fcall.hist = hist /\ fret.exc = "none"

\* C8, as stated: rotate, translate, then the inverse rotation followed by
\* the inverse translation recovers a 6-vector.
C8_AsStated ==
    (Came(<<Fwd(Rot), Fwd(Shift), Bwd(Rot), Bwd(Shift)>>) /\ fcall.input.shape = <<6>>)
        => fret.out = fcall.input

\* C8, amended: rotate, translate, then the inverse translation followed by
\* the inverse rotation recovers a 6-vector; a rotation alone and a
\* translation alone are each undone by the same call with backwards=True.
C8_RoundTrip ==
    /\ (Came(<<Fwd(Rot), Fwd(Shift), Bwd(Shift), Bwd(Rot)>>) /\ fcall.input.shape = <<6>>)
            => fret.out = fcall.input
    /\ Came(<<Fwd(Rot), Bwd(Rot)>>) => fret.out = fcall.input
    /\ Came(<<Fwd(Shift), Bwd(Shift)>>) => fret.out = fcall.input

C8_Witness ==
    /\ Came(<<Fwd(Rot), Fwd(Shift), Bwd(Shift), Bwd(Rot)>>)
    /\ fcall.input.shape = <<6>>
    /\ fret.out = fcall.input
    /\ fcall.arg # fcall.input

\* C9: ecliptic_to_equatorial returns an array of its input's shape for a 1-D
\* input of length 3 or 6 and for a 2-D input of shape 6x6, and for an input
\* of any other shape it exits the process and returns nothing.
C9_Shapes ==
    fcall.op = Rot =>
        IF fcall.arg.shape \in {<<3>>, <<6>>, <<6, 6>>}
        THEN /\ fret.exc = "none"
             /\ fret.out.shape = fcall.arg.shape
             /\ Len(fret.out.data) = Len(fcall.arg.data)
        ELSE fret.exc = "SystemExit" /\ fret.out = None

C9_Witness ==
    /\ fcall.op = Rot
    /\ fcall.arg.shape = <<1, 6>>
    /\ fret.exc = "SystemExit"

(***************************************************************************)
(* Properties of ParseElements, under Spec.                                *)
(***************************************************************************)
HeaderCount(el) == Cardinality({i \in 1..Len(el) : el[i] = cart_head})

\* the lines from the last header line on
LastSection(el) ==
    LET last == CHOOSE i \in 1..Len(el) :
                    el[i] = cart_head /\ \A j \in (i + 1)..Len(el) : el[j] # cart_head
    IN SubSeq(el, last, Len(el))

\* the first 25 lines of the last section
LastBlock(el) ==
    LET sec == LastSection(el)
    IN SubSeq(sec, 1, IF Len(sec) > 25 THEN 25 ELSE Len(sec))

\* the last section has a vector line of six values and an epoch line
ValidVectorAndEpoch(el) ==
    /\ HeaderCount(el) > 0
    /\ Len(LastSection(el)) >= 3
    /\ Len(LastSection(el)[2].f) = 6
    /\ Len(LastSection(el)[3].f) = 2

\* the last call read the file call.file as an OrbFit file
ReadOrbfit ==
    \/ call.op = "parse_orbfit"
    \/ call.op = "__init__" /\ call.filetype \in {"fel", "eq"}

Transform(vec, t) ==
    equatorial_helio2bary(ecliptic_to_equatorial(vec, FALSE).out, tdb_jd(t), FALSE).out

\* C1: after make_bary_equatorial, whatever the two helio-ecliptic flags: with
\* helio_ecl_vec_EXISTS, bary_eq_vec is translate(rotate(helio_ecl_vec), epoch
\* in tdb) and its flag is set; with helio_ecl_cov_EXISTS, bary_eq_cov is the
\* rotation alone of helio_ecl_cov and its flag is set; with neither, the call
\* fails with the 'nothing to transform' error.
C1_Transform ==
    call.op = "make_bary_equatorial" =>
        /\ helio_ecl_vec_EXISTS =>
            bary_eq_vec_EXISTS /\ bary_eq_vec = Transform(helio_ecl_vec, time)
        /\ helio_ecl_cov_EXISTS =>
            /\ bary_eq_cov_EXISTS
            /\ bary_eq_cov = ecliptic_to_equatorial(helio_ecl_cov, FALSE).out
        /\ (~helio_ecl_vec_EXISTS /\ ~helio_ecl_cov_EXISTS) =>
            raised = "TypeError: nothing to transform"

\* C2: reading a file that holds the header line more than once, the vector,
\* the epoch and the covariance come from the block that starts at the last
\* header line.
C2_LastSection ==
    (ReadOrbfit /\ HeaderCount(call.file) > 1 /\ raised = "none") =>
        LET B == LastBlock(call.file)
        IN /\ helio_ecl_vec_EXISTS
           /\ helio_ecl_vec = Arr1([i \in 1..6 |-> Q(B[2].f[i])])
           /\ time = Time(B[3].f[1], "tt")
           /\ IF NumCov(B) = 7
              THEN helio_ecl_cov_EXISTS /\ EncodedBy(helio_ecl_cov, B)
              ELSE ~helio_ecl_cov_EXISTS /\ helio_ecl_cov = zeros(6, 6)

C2_Witness ==
    /\ call.op = "parse_orbfit"
    /\ HeaderCount(call.file) > 1
    /\ raised = "none"
    /\ helio_ecl_cov_EXISTS
    /\ call.file[2] # LastBlock(call.file)[2]
    /\ NumCov(call.file) > 7

Fields ==
    <<helio_ecl_vec_EXISTS, helio_ecl_vec, helio_ecl_cov_EXISTS, helio_ecl_cov,
      bary_eq_vec_EXISTS, bary_eq_vec, bary_eq_cov_EXISTS, bary_eq_cov, time, tstart>>

\* C4: on a file without the header line, parse_orbfit fails with the 'no
\* valid elements' error and changes no field of the object, and a
\* construction fails with it and returns no object.
C4_NoHeader ==
    /\ []((call.op = "__init__" /\ call.filetype \in {"fel", "eq"}
              /\ HeaderCount(call.file) = 0)
            => (~alive /\ raised = "TypeError: no valid elements"
                       /\ ~helio_ecl_vec_EXISTS /\ ~helio_ecl_cov_EXISTS
                       /\ ~bary_eq_vec_EXISTS /\ ~bary_eq_cov_EXISTS))
    /\ [][(call'.op = "parse_orbfit" /\ HeaderCount(call'.file) = 0)
            => (raised' = "TypeError: no valid elements" /\ Fields' = Fields)]_vars

C4_Witness ==
    /\ call.op = "parse_orbfit"
    /\ HeaderCount(call.file) = 0
    /\ raised = "TypeError: no valid elements"
    /\ helio_ecl_vec_EXISTS /\ bary_eq_vec_EXISTS

BaryExists == bary_eq_vec_EXISTS \/ bary_eq_cov_EXISTS

\* C5, as stated: the bary-equatorial fields exist if and only if
\* make_bary_equatorial has run successfully on the object.
C5_AsStated == BaryExists <=> transformed

\* C5, amended: the bary-equatorial fields exist if and only if
\* make_bary_equatorial has run successfully on the object or
\* _get_and_set_junk_data(BaryEqDirect=True) has set them directly.
C5_BaryOrigin == BaryExists <=> (transformed \/ direct)

C5_Witness == bary_eq_vec_EXISTS /\ direct /\ ~transformed

IsPrefix(a, b) == Len(a) <= Len(b) /\ SubSeq(b, 1, Len(a)) = a

\* the methods a construction with a file runs when nothing fails
Pipeline(filetype, save_parsed) ==
    (IF filetype = "ele220"
        THEN <<"parse_ele220", "_get_and_set_junk_data", "make_bary_equatorial">>
        ELSE IF filetype \in {"fel", "eq"} THEN <<"parse_orbfit">> ELSE <<>>)
    \o <<"make_bary_equatorial">>
    \o (IF save_parsed THEN <<"save_elements">> ELSE <<>>)

\* C6: a construction with a file and a format runs the parse the format
\* routes to, then the transform, then save_elements only with save_parsed;
\* when the parse or the transform fails it stops there and the output file
\* is not opened.
C6_Pipeline ==
    (call.op = "__init__" /\ call.filetype # "None") =>
        /\ raised = "none" => steps = Pipeline(call.filetype, call.flag)
        /\ raised # "none" => IsPrefix(steps, Pipeline(call.filetype, FALSE))
        /\ alive <=> (raised = "none")
        /\ outfile.opened <=> (raised = "none" /\ call.flag)
        /\ outfile.opened => Len(outfile.text) = 7

C6_Witness ==
    /\ call.op = "__init__" /\ call.flag
    /\ steps = <<"parse_orbfit">>
    /\ raised = "ValueError"
    /\ helio_ecl_vec_EXISTS /\ time # NoTime
    /\ ~outfile.opened

\* C7: a file with the header, a valid vector line and a valid epoch line
\* whose block does not hold 7 ' COV' lines is parsed and transformed without
\* failure: the bary-equatorial vector is populated, the covariance flag is
\* false and the covariance is the zero matrix.
C7_MissingCovariance ==
    (ReadOrbfit /\ ValidVectorAndEpoch(call.file) /\ NumCov(LastBlock(call.file)) # 7) =>
        /\ raised = "none"
        /\ ~helio_ecl_cov_EXISTS
        /\ helio_ecl_cov = zeros(6, 6)
        /\ call.op = "__init__" =>
            /\ alive /\ transformed
            /\ bary_eq_vec_EXISTS
            /\ bary_eq_vec = Transform(helio_ecl_vec, time)
            /\ ~bary_eq_cov_EXISTS

C7_Witness ==
    /\ call.op = "__init__"
    /\ ValidVectorAndEpoch(call.file)
    /\ NumCov(call.file) = 7
    /\ NumCov(LastBlock(call.file)) = 2
    /\ raised = "none"
    /\ bary_eq_vec_EXISTS /\ ~helio_ecl_cov_EXISTS

IsVector6(a) == a # None /\ a.shape = <<6>> /\ Len(a.data) = 6
IsMatrix66(a) == a # None /\ a.shape = <<6, 6>> /\ Len(a.data) = 36

====
